---------------------------- MODULE Spec2Model ----------------------------
(***************************************************************************)
(* stringify-structured (src/src/index.ts): the layout engine (text,       *)
(* block, inline, list), the stringify driver with its cycle detection,    *)
(* the default formatter and the string-literal escaping.                  *)
(*                                                                         *)
(* A JavaScript string is a sequence of characters; a character is the     *)
(* one-character TLA+ string naming it ("NUL", "BS" and "VT" name the      *)
(* three control characters TLA+ has no escape for).                       *)
(***************************************************************************)
EXTENDS Integers, Sequences, FiniteSets, TLC

VARIABLES heap, consumed, call

vars == <<heap, consumed, call>>

(***************************************************************************)
(* Characters and strings                                                  *)
(***************************************************************************)

\* UTF-16 code units of the characters the model uses (the order of `>` on strings)
CharCode ==
  [NUL |-> 0, BS |-> 8, VT |-> 11] @@
  ("\t" :> 9) @@ ("\n" :> 10) @@ ("\f" :> 12) @@ ("\r" :> 13) @@
  (" " :> 32) @@ ("#" :> 35) @@ ("'" :> 39) @@ ("(" :> 40) @@ (")" :> 41) @@
  ("," :> 44) @@ ("0" :> 48) @@
  ("1" :> 49) @@ ("2" :> 50) @@ ("3" :> 51) @@ ("4" :> 52) @@ ("5" :> 53) @@
  ("6" :> 54) @@ ("7" :> 55) @@ ("8" :> 56) @@ ("9" :> 57) @@ (":" :> 58) @@
  ("<" :> 60) @@ (">" :> 62) @@ ("M" :> 77) @@ ("S" :> 83) @@ ("[" :> 91) @@
  ("\\" :> 92) @@ ("]" :> 93) @@ ("_" :> 95) @@ ("a" :> 97) @@ ("b" :> 98) @@
  ("c" :> 99) @@ ("d" :> 100) @@ ("e" :> 101) @@ ("f" :> 102) @@ ("i" :> 105) @@
  ("l" :> 108) @@ ("n" :> 110) @@ ("p" :> 112) @@ ("r" :> 114) @@ ("s" :> 115) @@
  ("t" :> 116) @@ ("u" :> 117) @@ ("{" :> 123) @@ ("}" :> 125)

\* what the regular expression class \s and String.prototype.trim take for white space
WhiteSpace == {" ", "\t", "\n", "VT", "\f", "\r"}

Letters == {"M", "S", "a", "b", "c", "d", "e", "f", "i", "l", "n", "p", "r", "s", "t", "u"}

Digits == {"0", "1", "2", "3", "4", "5", "6", "7", "8", "9"}

RECURSIVE Concat(_)
\* the strings of a sequence, concatenated
Concat(ss) == IF ss = <<>> THEN <<>> ELSE Head(ss) \o Concat(Tail(ss))

RECURSIVE sum(_)
sum(ns) == IF ns = <<>> THEN 0 ELSE Head(ns) + sum(Tail(ns))

Includes(s, c) == \E i \in 1..Len(s) : s[i] = c

RECURSIVE StrLess(_, _)
\* a < b for JavaScript strings: by code unit, a proper prefix first
StrLess(a, b) ==
  IF b = <<>> THEN FALSE
  ELSE IF a = <<>> THEN TRUE
  ELSE IF CharCode[Head(a)] # CharCode[Head(b)] THEN CharCode[Head(a)] < CharCode[Head(b)]
  ELSE StrLess(Tail(a), Tail(b))

RECURSIVE trimStart(_)
trimStart(s) == IF s # <<>> /\ Head(s) \in WhiteSpace THEN trimStart(Tail(s)) ELSE s

RECURSIVE trimEnd(_)
trimEnd(s) ==
  IF s # <<>> /\ s[Len(s)] \in WhiteSpace THEN trimEnd(SubSeq(s, 1, Len(s) - 1)) ELSE s

trim(s) == trimEnd(trimStart(s))

\* ' '.repeat(n), new Array(n + 1).join(' ')
spaceWithLength(n) == [i \in 1..n |-> " "]

RECURSIVE NumberToString(_)
\* '' + n for a natural number n
NumberToString(n) ==
  LET digit == CHOOSE d \in Digits : CharCode[d] = 48 + (n % 10)
  IN IF n < 10 THEN <<digit>> ELSE NumberToString(n \div 10) \o <<digit>>

(***************************************************************************)
(* String literals                                                         *)
(***************************************************************************)

\* the characters the regular expression of stringifyStringLiteral matches
EscapedChars == {"NUL", "BS", "\f", "\n", "\r", "\t", "VT", "\\", "'"}

escapeSubstitutes ==
  [NUL |-> <<"\\", "0">>, BS |-> <<"\\", "b">>, VT |-> <<"\\", "v">>] @@
  ("\f" :> <<"\\", "f">>) @@ ("\n" :> <<"\\", "n">>) @@ ("\r" :> <<"\\", "r">>) @@
  ("\t" :> <<"\\", "t">>) @@ ("\\" :> <<"\\", "\\">>) @@ ("'" :> <<"\\", "t">>)

\* the replacement callback of s.replace(..., s => escapeSubstitutes[s])
escapeChar(c) == IF c \in EscapedChars THEN escapeSubstitutes[c] ELSE <<c>>

stringifyStringLiteral(s) ==
  <<"'">> \o Concat([i \in 1..Len(s) |-> escapeChar(s[i])]) \o <<"'">>

(***************************************************************************)
(* The node primitives: text, block, inline, list                          *)
(***************************************************************************)

\* interpolate throws unless there is exactly one more string than interpolation
interpolateThrows(strings, interpolations) ==
  Len(strings) = 0 \/ Len(strings) # Len(interpolations) + 1

\* strings[1] interpolations[1] strings[2] ... interpolations[n] strings[n+1]
interpolate(strings, interpolations) ==
  Concat([i \in 1..(2 * Len(strings) - 1) |->
            IF i % 2 = 1 THEN strings[(i + 1) \div 2] ELSE interpolations[i \div 2]])

RECURSIVE splitAtNewline(_, _)
\* s cut at every "\n"; cur is the line read so far
splitAtNewline(s, cur) ==
  IF s = <<>> THEN <<cur>>
  ELSE IF Head(s) = "\n" THEN <<cur>> \o splitAtNewline(Tail(s), <<>>)
  ELSE splitAtNewline(Tail(s), Append(cur, Head(s)))

\* text.split(/\r?\n/g): a "\r" right before the "\n" belongs to the separator
splitLines(s) ==
  LET raw == splitAtNewline(s, <<>>)
      chop(l) == IF l # <<>> /\ l[Len(l)] = "\r" THEN SubSeq(l, 1, Len(l) - 1) ELSE l
  IN [i \in 1..Len(raw) |-> IF i < Len(raw) THEN chop(raw[i]) ELSE raw[i]]

RECURSIVE indentOfLine(_)
\* line.match(/^ */)[0].length
indentOfLine(line) ==
  IF line # <<>> /\ Head(line) = " " THEN 1 + indentOfLine(Tail(line)) ELSE 0

\* /^\s*$/.test(l)
isBlankLine(l) == \A i \in 1..Len(l) : l[i] \in WhiteSpace

\* Math.min over the indents of the non-blank lines; 0 when Math.min() is Infinity
minIndentSize(restLines) ==
  LET sizes == {indentOfLine(restLines[i]) :
                  i \in {j \in 1..Len(restLines) : ~isBlankLine(restLines[j])}}
  IN IF sizes = {} THEN 0 ELSE CHOOSE m \in sizes : \A n \in sizes : m <= n

RECURSIVE replaceIndent(_, _, _)
\* l.replace(new RegExp('^' + ' '.repeat(m), 'gm'), indent), read from a line start:
\* with the m flag a line starts at the start of l and after every "\r" left in it
replaceIndent(l, m, indent) ==
  LET matches == Len(l) >= m /\ \A i \in 1..m : l[i] = " "
      rest == IF matches THEN SubSeq(l, m + 1, Len(l)) ELSE l
      crs == {i \in 1..Len(rest) : rest[i] = "\r"}
      cut == IF crs = {} THEN Len(rest) ELSE CHOOSE i \in crs : \A j \in crs : i <= j
  IN (IF matches THEN indent ELSE <<>>) \o SubSeq(rest, 1, cut) \o
     (IF crs = {} THEN <<>> ELSE replaceIndent(SubSeq(rest, cut + 1, Len(rest)), m, indent))

RECURSIVE joinWith(_, _)
\* ss.join(sep)
joinWith(ss, sep) ==
  IF ss = <<>> THEN <<>>
  ELSE IF Len(ss) = 1 THEN ss[1]
  ELSE ss[1] \o sep \o joinWith(Tail(ss), sep)

\* text`...`[stringifySymbol]({ wrapWidth, indent }), text being the interpolated string
textRender(text, indent) ==
  LET lines == splitLines(text)
      restLines == Tail(lines)
      m == minIndentSize(restLines)
      reIndentedLines ==
        <<Head(lines)>> \o [i \in 1..Len(restLines) |-> replaceIndent(restLines[i], m, indent)]
  IN IF Len(lines) = 1
       THEN [isMultiline |-> FALSE, content |-> text]
       ELSE [isMultiline |-> TRUE, content |-> joinWith(reIndentedLines, <<"\n">>)]

\* sum(strings.map(s => s.length)) + sum(rendered.map(s => s.content.length))
singleLineLength(strings, rendered) ==
  sum([i \in 1..Len(strings) |-> Len(strings[i])]) +
  sum([i \in 1..Len(rendered) |-> Len(rendered[i].content)])

\* variants of exceedsWrapWidth: one that forgets the indent, one that compares the wrong way
exceedsWrapWidthWithoutIndent(indent, length, wrapWidth) == length > wrapWidth

exceedsWrapWidthInverted(indent, length, wrapWidth) == Len(indent) + length < wrapWidth

\* the number Infinity, which no length is greater than; the model writes it as a
\* number that is no wrapWidth of its calls
Infinity == -1

\* a variant of exceedsWrapWidth that takes Infinity for a width like any other
exceedsWrapWidthOfAnyNumber(indent, length, wrapWidth) == Len(indent) + length > wrapWidth

\* a variant of exceedsWrapWidth that allows one character more than wrapWidth
exceedsWrapWidthByTwo(indent, length, wrapWidth) ==
  wrapWidth # Infinity /\ Len(indent) + length > wrapWidth + 1

\* indent.length + singleLineLength > wrapWidth
exceedsWrapWidth(indent, length, wrapWidth) ==
  wrapWidth # Infinity /\ Len(indent) + length > wrapWidth

\* a variant of templateIsMultiline that does not look at the rendered interpolations
templateIsMultilineByWidth(strings, rendered, indent, wrapWidth) ==
  \/ exceedsWrapWidth(indent, singleLineLength(strings, rendered), wrapWidth)
  \/ \E i \in 1..Len(strings) : Includes(strings[i], "\n")

\* a variant of templateIsMultiline that does not look for line breaks in the strings
templateIsMultilineWithoutStrings(strings, rendered, indent, wrapWidth) ==
  \/ \E i \in 1..Len(rendered) : rendered[i].isMultiline
  \/ exceedsWrapWidth(indent, singleLineLength(strings, rendered), wrapWidth)

\* the wrap decision shared by block and inline
templateIsMultiline(strings, rendered, indent, wrapWidth) ==
  \/ \E i \in 1..Len(rendered) : rendered[i].isMultiline
  \/ exceedsWrapWidth(indent, singleLineLength(strings, rendered), wrapWidth)
  \/ \E i \in 1..Len(strings) : Includes(strings[i], "\n")

\* a variant of blockMultilineString that gives a blank string a line of its own too
blockMultilineStringKeepingBlank(s, i, indent) ==
  IF i = 1 THEN trim(s) ELSE <<"\n">> \o indent \o trim(s)

\* the strings of a block that wraps: trimmed, each but the first on a line of its own
blockMultilineString(s, i, indent) ==
  LET t == trim(s)
  IN IF i = 1 THEN t
     ELSE IF t = <<>> THEN t
     ELSE <<"\n">> \o indent \o t

blockContent(strings, rendered, isMultiline, indent, childIndent) ==
  IF isMultiline
    THEN interpolate(
           [i \in 1..Len(strings) |-> blockMultilineString(strings[i], i, indent)],
           [i \in 1..Len(rendered) |-> <<"\n">> \o childIndent \o trim(rendered[i].content)])
    ELSE interpolate(strings, [i \in 1..Len(rendered) |-> rendered[i].content])

\* block`...`[stringifySymbol], rendered being the interpolations as render returned them
blockRender(strings, rendered, params) ==
  LET isMultiline == templateIsMultiline(strings, rendered, params.indent, params.wrapWidth)
  IN [isMultiline |-> isMultiline,
      content |-> blockContent(strings, rendered, isMultiline, params.indent,
                               params.indent \o params.indentIncrement)]

\* a variant of inlineRender that breaks the lines of a multiline inline as a block does
inlineRenderWrapping(strings, rendered, params) ==
  blockRender(strings, rendered, [params EXCEPT !.indentIncrement = <<>>])

\* inline`...`[stringifySymbol]
inlineRender(strings, rendered, params) ==
  [isMultiline |-> templateIsMultiline(strings, rendered, params.indent, params.wrapWidth),
   content |-> interpolate(strings, [i \in 1..Len(rendered) |-> rendered[i].content])]

\* the comparator of renderedItems.sort: a.content > b.content ? 1 : a === b ? 0 : -1
compareContent(a, b) ==
  IF StrLess(b.content, a.content) THEN 1 ELSE IF a.content = b.content THEN 0 ELSE -1

RECURSIVE insertSorted(_, _)
\* x put into the sorted xs, after the items it does not compare smaller than
insertSorted(xs, x) ==
  IF xs = <<>> THEN <<x>>
  ELSE IF compareContent(x, Head(xs)) < 0 THEN <<x>> \o xs
  ELSE <<Head(xs)>> \o insertSorted(Tail(xs), x)

\* a variant of sortRendered that leaves the items as they are
sortRenderedNot(xs) == xs

RECURSIVE sortRendered(_)
\* Array.prototype.sort with compareContent: stable
sortRendered(xs) ==
  IF xs = <<>> THEN <<>>
  ELSE insertSorted(sortRendered(SubSeq(xs, 1, Len(xs) - 1)), xs[Len(xs)])

\* a variant of listSingleLineLength without Math.max: one joiner less than items, also
\* for no items
listSingleLineLengthSigned(joiner, renderedItems) ==
  sum([i \in 1..Len(renderedItems) |-> Len(renderedItems[i].content)]) +
  Len(joiner) * (Len(renderedItems) - 1)

listSingleLineLength(joiner, renderedItems) ==
  LET n == Len(renderedItems) - 1
  IN sum([i \in 1..Len(renderedItems) |-> Len(renderedItems[i].content)]) +
     Len(joiner) * (IF n > 0 THEN n ELSE 0)

listIsMultiline(joiner, renderedItems, indent, wrapWidth) ==
  \/ \E i \in 1..Len(renderedItems) : renderedItems[i].isMultiline
  \/ exceedsWrapWidth(indent, listSingleLineLength(joiner, renderedItems), wrapWidth)
  \/ Includes(joiner, "\n")

\* a variant of listRender that keeps the white space at the end of the joiner of a
\* multiline list
listRenderUntrimmed(joiner, sort, rendered, params) ==
  LET renderedItems == IF sort THEN sortRendered(rendered) ELSE rendered
      isMultiline == listIsMultiline(joiner, renderedItems, params.indent, params.wrapWidth)
      contents == [i \in 1..Len(renderedItems) |-> renderedItems[i].content]
  IN [isMultiline |-> isMultiline,
      content |-> IF isMultiline
                    THEN joinWith(contents, joiner \o <<"\n">> \o params.indent)
                    ELSE joinWith(contents, joiner)]

\* list(joiner, items, opts)[stringifySymbol], rendered being the items as render returned them
listRender(joiner, sort, rendered, params) ==
  LET renderedItems == IF sort THEN sortRendered(rendered) ELSE rendered
      isMultiline == listIsMultiline(joiner, renderedItems, params.indent, params.wrapWidth)
      contents == [i \in 1..Len(renderedItems) |-> renderedItems[i].content]
  IN [isMultiline |-> isMultiline,
      content |-> IF isMultiline
                    THEN joinWith(contents, trimEnd(joiner) \o <<"\n">> \o params.indent)
                    ELSE joinWith(contents, joiner)]


(***************************************************************************)
(* Values                                                                  *)
(*                                                                         *)
(* A value is a record tagged by t: a primitive ("undefined", "null",      *)
(* "boolean" b, "number" n, "string" s), a reference [t |-> "ref", id] to  *)
(* an object of the heap, or an object [t |-> "object", obj, owner] that   *)
(* only the one place naming it holds (a node the formatter builds for the *)
(* value owner). An object is a record of kind "array", "set" (items, in   *)
(* insertion order), "map", "object" (entries, pairs <<key, value>> in     *)
(* insertion order), or a node of kind "text", "block", "inline" (strings, *)
(* interpolations) or "list" (joiner, items, sort).                        *)
(* A heap object has the identity of its reference; an object held in one  *)
(* place has that of its record: the formatter is called once for a value  *)
(* on any path of one invocation, and builds different nodes in one call.  *)
(***************************************************************************)

NodeKinds == {"text", "block", "inline", "list"}

Undefined == [t |-> "undefined"]

Null == [t |-> "null"]

Bool(b) == [t |-> "boolean", b |-> b]

Num(n) == [t |-> "number", n |-> n]

Str(s) == [t |-> "string", s |-> s]

\* Symbol(description), a bigint and a function: values met as the keys of a Map
Symbol(description) == [t |-> "symbol", description |-> description]

BigInt(n) == [t |-> "bigint", n |-> n]

Function == [t |-> "function"]

Ref(id) == [t |-> "ref", id |-> id]

\* an object held in one place: a node the formatter built for the value owner
Obj(obj, owner) == [t |-> "object", obj |-> obj, owner |-> owner]

\* the object a composite value is; the function is one without enumerable properties
objectOf(value) ==
  IF value.t = "ref" THEN heap[value.id]
  ELSE IF value.t = "function" THEN [kind |-> "function", entries |-> <<>>]
  ELSE value.obj

\* text`...`
text(strings, interpolations) ==
  [kind |-> "text", strings |-> strings, interpolations |-> interpolations]

\* block`...`
block(strings, interpolations) ==
  [kind |-> "block", strings |-> strings, interpolations |-> interpolations]

\* inline`...`
inline(strings, interpolations) ==
  [kind |-> "inline", strings |-> strings, interpolations |-> interpolations]

\* list(joiner, items, { sort }): items is an array here (gen = 0), or the one-shot
\* iterator gen > 0 (a generator object), which yields items once and then nothing
list(joiner, items, sort) ==
  [kind |-> "list", joiner |-> joiner, items |-> items, sort |-> sort, gen |-> 0]

listOfIterator(joiner, items, sort, gen) ==
  [kind |-> "list", joiner |-> joiner, items |-> items, sort |-> sort, gen |-> gen]

isObject(value) == value.t \in {"ref", "object", "function"}

isStringifiable(value) == isObject(value) /\ objectOf(value).kind \in NodeKinds

isNameString(name) ==
  /\ Len(name) >= 1
  /\ name[1] \in Letters \cup {"_"}
  /\ \A i \in 2..Len(name) : name[i] \in Letters \cup Digits \cup {"_"}

\* value.toString() of a symbol
symbolToString(value) ==
  <<"S", "y", "m", "b", "o", "l", "(">> \o value.description \o <<")">>

stringifyKey(value) ==
  CASE value.t = "undefined" -> <<"[", "u", "n", "d", "e", "f", "i", "n", "e", "d", "]">>
    [] value.t = "function" -> <<"[", "<", "f", "u", "n", "c", "t", "i", "o", "n", ">", "]">>
    [] value.t = "boolean" ->
         <<"[">> \o (IF value.b THEN <<"t", "r", "u", "e">> ELSE <<"f", "a", "l", "s", "e">>)
                 \o <<"]">>
    [] value.t = "symbol" -> <<"[">> \o symbolToString(value) \o <<"]">>
    [] value.t = "number" -> <<"[">> \o NumberToString(value.n) \o <<"]">>
    [] value.t = "bigint" -> <<"[">> \o NumberToString(value.n) \o <<"]">>
    [] value.t = "string" ->
         IF isNameString(value.s) THEN value.s ELSE stringifyStringLiteral(value.s)
    [] value.t = "null" -> <<"n", "u", "l", "l">>
    [] value.t \in {"ref", "object"} -> <<"[", "<", "o", "b", "j", "e", "c", "t", ">", "]">>

\* the sort option objectLike gives its list
objectLikeSort == TRUE

\* objectLike(keyValuePairs), called to format the value owner
objectLike(keyValuePairs, owner) ==
  block(<<<<"{", " ">>, <<" ", "}">>>>,
        <<Obj(list(<<",", " ">>,
                   [i \in 1..Len(keyValuePairs) |->
                      Obj(inline(<<<<>>, <<":", " ">>, <<>>>>,
                                 <<Obj(text(<<<<>>, <<>>>>,
                                            <<Str(stringifyKey(keyValuePairs[i][1]))>>), owner),
                                   keyValuePairs[i][2]>>), owner)],
                   objectLikeSort), owner)>>)

defaultFormatter(value) ==
  CASE value.t = "undefined" -> text(<<<<"u", "n", "d", "e", "f", "i", "n", "e", "d">>>>, <<>>)
    [] value.t = "boolean" ->
         text(<<<<>>, <<>>>>,
              <<Str(IF value.b THEN <<"t", "r", "u", "e">> ELSE <<"f", "a", "l", "s", "e">>)>>)
    [] value.t = "number" -> text(<<<<>>, <<>>>>, <<value>>)
    [] value.t = "string" -> text(<<<<>>, <<>>>>, <<Str(stringifyStringLiteral(value.s))>>)
    [] value.t = "null" -> text(<<<<"n", "u", "l", "l">>>>, <<>>)
    [] isObject(value) /\ objectOf(value).kind = "array" ->
         block(<<<<"[">>, <<"]">>>>,
               <<Obj(list(<<",", " ">>, objectOf(value).items, FALSE), value)>>)
    [] isObject(value) /\ objectOf(value).kind = "set" ->
         block(<<<<"S", "e", "t", " ", "[">>, <<"]">>>>,
               <<Obj(list(<<",", " ">>, objectOf(value).items, TRUE), value)>>)
    [] isObject(value) /\ objectOf(value).kind = "map" ->
         inline(<<<<"M", "a", "p", " ">>, <<>>>>,
                <<Obj(objectLike(objectOf(value).entries, value), value)>>)
    [] isObject(value) /\ objectOf(value).kind \in {"object", "function"} ->
         objectLike(objectOf(value).entries, value)

\* a formatter a caller passes in opts.formatter: the objects as defaultFormatter has
\* them, every primitive as text`#`
customFormatter(value) ==
  IF isObject(value) THEN defaultFormatter(value) ELSE text(<<<<"#">>>>, <<>>)

\* formatter(value), formatter being the name of one of the two
format(formatter, value) ==
  IF formatter = "customFormatter" THEN customFormatter(value) ELSE defaultFormatter(value)

\* opts?.formatter ?? defaultFormatter: an opts record without the field has no formatter
formatterOf(opts) ==
  IF "formatter" \in DOMAIN opts THEN opts.formatter ELSE "defaultFormatter"


(***************************************************************************)
(* The stringify driver                                                    *)
(*                                                                         *)
(* A call of stringify is one recursive descent. Its effects are threaded  *)
(* through the descent in st: alreadyVisited (the set of this invocation), *)
(* consumed (the one-shot iterators read to their end) and, as history,    *)
(* path (the values whose render is active in this invocation), stack (the *)
(* values whose render is active, in this invocation and in those that     *)
(* enclose it), reentered (the heap objects render went into while they    *)
(* were on the stack), level (how many invocations enclose this one) and   *)
(* log (every call of render that returned, in the order of return),      *)
(* failed (every call of render an exception left) and formatted (every    *)
(* call of the formatter). A step of the descent answers with [threw, res, *)
(* st]: threw as the RangeError of an exhausted call stack passes through  *)
(* it.                                                                     *)
(***************************************************************************)

\* the call stack: the depth of nested render and stringify calls the engine allows
MaxStack == 14

DefaultWrapWidth == 120

DefaultIndentIncrement == 2

DefaultBaseIndent == 0

\* an option not given: <<>>; given: <<v>>
orDefault(option, default) == IF option = <<>> THEN default ELSE option[1]

NoOpts == [wrapWidth |-> <<>>, indentIncrement |-> <<>>, baseIndent |-> <<>>]

NoResult == [isMultiline |-> FALSE, content |-> <<>>]

circularText == text(<<<<"<", "c", "i", "r", "c", "u", "l", "a", "r", ">">>>>, <<>>)

threw(st) == [threw |-> TRUE, res |-> NoResult, st |-> st]

\* a variant of enter that adds every value to alreadyVisited, primitives too
enterAnyValue(st, value) ==
  [st EXCEPT !.alreadyVisited = @ \cup {value},
             !.path = Append(@, value),
             !.stack = Append(@, value),
             !.reentered = IF value.t = "ref" /\ Includes(st.stack, value)
                             THEN @ \cup {value} ELSE @]

\* alreadyVisited.add(value), for the values render adds
enter(st, value) ==
  [st EXCEPT !.alreadyVisited = IF isObject(value) THEN @ \cup {value} ELSE @,
             !.path = Append(@, value),
             !.stack = Append(@, value),
             !.reentered = IF value.t = "ref" /\ Includes(st.stack, value)
                             THEN @ \cup {value} ELSE @]

\* a variant of leave that forgets alreadyVisited.delete(value)
leaveWithoutDelete(st, value) ==
  [st EXCEPT !.path = SubSeq(@, 1, Len(@) - 1), !.stack = SubSeq(@, 1, Len(@) - 1)]

\* finally { alreadyVisited.delete(value) }
leave(st, value) ==
  [st EXCEPT !.alreadyVisited = IF isObject(value) THEN @ \ {value} ELSE @,
             !.path = SubSeq(@, 1, Len(@) - 1),
             !.stack = SubSeq(@, 1, Len(@) - 1)]

\* a variant of newVisited: one set shared by all invocations
newVisitedShared(outer) == outer

\* the set a new invocation of stringify starts with, outer being the caller's
newVisited(outer) == {}

\* (history) the record of one call of render that returned
logEntry(value, kind, params, before, res, after) ==
  [value |-> value, kind |-> kind, wrapWidth |-> params.wrapWidth, indent |-> params.indent,
   indentIncrement |-> params.indentIncrement,
   level |-> before.level, path |-> before.path, stack |-> before.stack,
   visited |-> before.alreadyVisited, left |-> after.alreadyVisited,
   sub |-> Len(after.log) - Len(before.log), res |-> res]

\* the items [...items] yields, and the iterators consumed after it
spreadItems(node, st) ==
  IF node.gen = 0 THEN node.items
  ELSE IF node.gen \in st.consumed THEN <<>> ELSE node.items

\* '' + x for a primitive x
primitiveToString(x) ==
  CASE x.t = "string" -> x.s
    [] x.t = "number" -> NumberToString(x.n)
    [] x.t = "boolean" -> IF x.b THEN <<"t", "r", "u", "e">> ELSE <<"f", "a", "l", "s", "e">>
    [] x.t = "undefined" -> <<"u", "n", "d", "e", "f", "i", "n", "e", "d">>
    [] x.t = "null" -> <<"n", "u", "l", "l">>

\* the parameters stringify renders its value with; of render, the closure the
\* parameters carry, they keep the formatter it closes over
rootParams(opts) ==
  [wrapWidth |-> orDefault(opts.wrapWidth, DefaultWrapWidth),
   indent |-> spaceWithLength(orDefault(opts.baseIndent, DefaultBaseIndent)),
   indentIncrement |-> spaceWithLength(orDefault(opts.indentIncrement, DefaultIndentIncrement)),
   formatter |-> formatterOf(opts)]

\* the state in which a new invocation of stringify starts, st being its caller's
invocation(st) ==
  [st EXCEPT !.alreadyVisited = newVisited(st.alreadyVisited), !.path = <<>>, !.level = @ + 1]

\* stringify returns render(value, params).content to its caller, whose state was st
stringifyReturn(st, rendered) ==
  [threw |-> rendered.threw, content |-> rendered.res.content,
   st |-> [rendered.st EXCEPT !.alreadyVisited = st.alreadyVisited,
                              !.path = st.path, !.level = st.level]]

\* render returns the circular marker
renderCircular(value, params, st, res) ==
  [threw |-> FALSE, res |-> res,
   st |-> [st EXCEPT !.log = Append(@, logEntry(value, "circular", params, st, res, st))]]

\* (history) the record of one call of render that an exception left: alreadyVisited
\* when it was called and when the exception left it
failedEntry(value, before, after) ==
  [value |-> value, level |-> before.level, path |-> before.path,
   visited |-> before.alreadyVisited, left |-> after.alreadyVisited]

\* the exception of the stringifiable passes through render, which was called in st
renderThrows(value, st, after) ==
  threw([after EXCEPT !.failed = Append(@, failedEntry(value, st, after))])

\* a variant of renderReturn without the finally block: alreadyVisited.delete(value)
\* runs only when the stringifiable returns
renderReturnWithoutFinally(value, kind, params, st, r) ==
  IF r.threw THEN renderThrows(value, st, leaveWithoutDelete(r.st, value))
  ELSE [threw |-> FALSE, res |-> r.res,
        st |-> [leave(r.st, value) EXCEPT !.log =
                  Append(@, logEntry(value, kind, params, st, r.res, leave(r.st, value)))]]

\* render leaves value and returns what the stringifiable answered (r)
renderReturn(value, kind, params, st, r) ==
  IF r.threw THEN renderThrows(value, st, leave(r.st, value))
  ELSE [threw |-> FALSE, res |-> r.res,
        st |-> [leave(r.st, value) EXCEPT !.log =
                  Append(@, logEntry(value, kind, params, st, r.res, leave(r.st, value)))]]

\* (history) render passes value to formatter, in the state st it entered value in
callFormatter(st, formatter, value) ==
  [st EXCEPT !.formatted = Append(@, [formatter |-> formatter, value |-> value,
                                      level |-> st.level, path |-> st.path])]

\* the results of a first element and of the elements after it, under field
consResults(field, first, rest) == [rest EXCEPT ![field] = <<first>> \o @]

\* a text node answers, its interpolations coerced
textReturn(node, params, coerced) ==
  IF coerced.threw \/ interpolateThrows(node.strings, coerced.strings) THEN threw(coerced.st)
  ELSE [threw |-> FALSE, st |-> coerced.st,
        res |-> textRender(interpolate(node.strings, coerced.strings), params.indent)]

\* a block node answers, its interpolations rendered
blockReturn(node, params, children) ==
  IF children.threw THEN threw(children.st)
  ELSE [threw |-> FALSE, st |-> children.st,
        res |-> blockRender(node.strings, children.rendered, params)]

\* an inline node answers, its interpolations rendered
inlineReturn(node, params, children) ==
  IF children.threw THEN threw(children.st)
  ELSE [threw |-> FALSE, st |-> children.st,
        res |-> inlineRender(node.strings, children.rendered, params)]

\* a list node answers, its items rendered
listReturn(node, params, items) ==
  IF items.threw THEN threw(items.st)
  ELSE [threw |-> FALSE, st |-> items.st,
        res |-> listRender(node.joiner, node.sort, items.rendered, params)]

\* the state after [...items] has read the iterator of a list
spread(node, st) ==
  [st EXCEPT !.consumed = IF node.gen = 0 THEN @ ELSE @ \cup {node.gen}]

RECURSIVE render(_, _, _, _)
RECURSIVE renderRest(_, _, _, _)
RECURSIVE renderEach(_, _, _, _)
RECURSIVE invoke(_, _, _, _)
RECURSIVE coerceRest(_, _, _)
RECURSIVE coerceEach(_, _, _)
RECURSIVE stringifyIn(_, _, _, _)

\* stringify(value, opts) called with depth frames on the stack; answers [threw, content, st]
stringifyIn(value, opts, st, depth) ==
  IF depth >= MaxStack THEN [threw |-> TRUE, content |-> <<>>, st |-> st]
  ELSE stringifyReturn(st, render(value, rootParams(opts), invocation(st), depth + 1))

\* the render function of stringify
render(value, params, st, depth) ==
  IF depth >= MaxStack THEN threw(st)
  ELSE IF isObject(value) /\ value \in st.alreadyVisited
    THEN renderCircular(value, params, st,
                        textRender(interpolate(circularText.strings, <<>>), params.indent))
    ELSE IF isStringifiable(value)
      THEN renderReturn(value, objectOf(value).kind, params, st,
                        invoke(objectOf(value), params, enter(st, value), depth + 1))
      ELSE renderReturn(value, format(params.formatter, value).kind, params, st,
                        invoke(format(params.formatter, value), params,
                               callFormatter(enter(st, value), params.formatter, value),
                               depth + 1))

\* the elements of values.map after the first, which answered first
renderRest(values, params, first, depth) ==
  IF first.threw THEN [threw |-> TRUE, rendered |-> <<>>, st |-> first.st]
  ELSE consResults("rendered", first.res,
                   renderEach(Tail(values), params, first.st, depth))

\* values.map(x => render(x, params)); answers [threw, rendered, st]
renderEach(values, params, st, depth) ==
  IF values = <<>> THEN [threw |-> FALSE, rendered |-> <<>>, st |-> st]
  ELSE renderRest(values, params, render(Head(values), params, st, depth), depth)

\* the elements of interpolations.map after the first, which answered own
coerceRest(values, own, depth) ==
  IF own.threw THEN [threw |-> TRUE, strings |-> <<>>, st |-> own.st]
  ELSE consResults("strings", own.content, coerceEach(Tail(values), own.st, depth))

\* interpolations.map(x => '' + x), for primitives and nodes: a node's toString is
\* stringify(node, undefined); answers [threw, strings, st]
coerceEach(values, st, depth) ==
  IF values = <<>> THEN [threw |-> FALSE, strings |-> <<>>, st |-> st]
  ELSE IF isStringifiable(Head(values))
    THEN coerceRest(values, stringifyIn(Head(values), NoOpts, st, depth), depth)
    ELSE coerceRest(values, [threw |-> FALSE, st |-> st,
                             content |-> primitiveToString(Head(values))], depth)

\* stringifiable[stringifySymbol](params)
invoke(node, params, st, depth) ==
  CASE node.kind = "text" ->
         textReturn(node, params, coerceEach(node.interpolations, st, depth))
    [] node.kind = "block" ->
         blockReturn(node, params,
                     renderEach(node.interpolations,
                                [params EXCEPT !.indent = @ \o params.indentIncrement],
                                st, depth))
    [] node.kind = "inline" ->
         inlineReturn(node, params, renderEach(node.interpolations, params, st, depth))
    [] node.kind = "list" ->
         listReturn(node, params,
                    renderEach(spreadItems(node, st), params, spread(node, st), depth))


(***************************************************************************)
(* The program: it builds values, then calls stringify on them             *)
(*                                                                         *)
(* The values are heaps of a few objects, object 1 being the one stringify *)
(* is called on: an outer object over an inner one and two text leaves, of *)
(* every kind and with members that share and that close cycles, and the   *)
(* values of the repository's own tests.                                   *)
(***************************************************************************)

\* wrapWidth ranges over 0..MaxWrapWidth (and the default), baseIndent over 0..MaxBaseIndent
MaxWrapWidth == 7

MaxBaseIndent == 1

Kinds == {"array", "set", "map", "object", "block", "inline", "list", "sortedList",
          "iteratorList", "text"}

\* the i-th key of a Map and of a plain object
mapKey(i) == IF i = 1 THEN Str(<<"b">>) ELSE Num(2)

objectKey(i) == IF i = 1 THEN Str(<<"b">>) ELSE Str(<<"a">>)

\* the object of kind k over the members kids, built as object id
Make(k, kids, id) ==
  LET n == Len(kids)
  IN CASE k \in {"array", "set"} -> [kind |-> k, items |-> kids]
       [] k = "map" -> [kind |-> k, entries |-> [i \in 1..n |-> <<mapKey(i), kids[i]>>]]
       [] k = "object" -> [kind |-> k, entries |-> [i \in 1..n |-> <<objectKey(i), kids[i]>>]]
       [] k = "block" ->
            block([i \in 1..(n + 1) |->
                     IF n = 0 THEN <<"(", ")">>
                     ELSE IF i = 1 THEN <<"(", " ">>
                     ELSE IF i = n + 1 THEN <<" ", ")">> ELSE <<" ">>], kids)
       [] k = "inline" ->
            inline([i \in 1..(n + 1) |->
                      IF i = 1 THEN <<"a", " ">>
                      ELSE IF i = n + 1 THEN <<" ", "c">> ELSE <<":">>], kids)
       [] k = "list" -> list(<<",", " ">>, kids, FALSE)
       [] k = "sortedList" -> list(<<",", " ">>, kids, TRUE)
       [] k = "iteratorList" -> listOfIterator(<<",", " ">>, kids, FALSE, id)
       [] k = "text" -> text([i \in 1..(n + 1) |-> IF i = 1 THEN <<"t">> ELSE <<>>], kids)

OuterKids ==
  {<<Ref(2)>>, <<Ref(2), Ref(2)>>, <<Num(1), Ref(2)>>, <<Ref(2), Num(1)>>,
   <<Ref(1), Ref(2)>>, <<Ref(2), Ref(1)>>}

InnerKids ==
  {<<>>, <<Num(2)>>, <<Num(2), Num(1)>>, <<Ref(3)>>, <<Ref(4)>>, <<Num(2), Ref(4)>>,
   <<Ref(1)>>, <<Ref(2)>>, <<Ref(1), Num(2)>>}

\* text`ab` and a text of three lines
Leaves ==
  <<text(<<<<"a", "b">>>>, <<>>),
    text(<<<<"a", "\n", " ", " ", "b", "\n", " ", "c">>>>, <<>>)>>

\* '' + x is modelled for the primitives and the nodes: a text interpolates nothing else
textInterpolates(h) ==
  \A id \in DOMAIN h :
    h[id].kind = "text" =>
      \A i \in 1..Len(h[id].interpolations) :
        LET x == h[id].interpolations[i]
        IN x.t = "ref" => h[x.id].kind \in NodeKinds

\* the objects of h that object id holds as a template node: a text, block or inline
\* holds the interpolations it was built with, for good
templateRefs(h, id) ==
  IF h[id].kind \in {"text", "block", "inline"}
    THEN {h[id].interpolations[i].id :
            i \in {j \in 1..Len(h[id].interpolations) : h[id].interpolations[j].t = "ref"}}
    ELSE {}

RECURSIVE templateReach(_, _, _)
templateReach(h, ids, n) ==
  IF n = 0 THEN ids
  ELSE templateReach(h, ids \cup UNION {templateRefs(h, id) : id \in ids}, n - 1)

\* a program can build h: a template node exists before whatever is built over it, so
\* every cycle goes through an array, a Set, a Map, an object or the items of a list
constructible(h) ==
  \A id \in DOMAIN h : id \notin templateReach(h, templateRefs(h, id), Len(h))

GridHeaps ==
  {h \in {<<Make(k1, kids1, 1), Make(k2, kids2, 2)>> \o Leaves :
            k1 \in Kinds, kids1 \in OuterKids, k2 \in Kinds, kids2 \in InnerKids} :
     textInterpolates(h) /\ constructible(h)}

\* test/index.test.js: circular; object; partial expand (shortened); and two blocks
\* over the list of one iterator, in a sorted list
TestHeaps ==
  {<<[kind |-> "array", items |-> <<Ref(1), Str(<<"b">>), Ref(2)>>],
     [kind |-> "array", items |-> <<Str(<<"c">>), Ref(1)>>]>>,
   <<[kind |-> "object", entries |-> <<<<Str(<<"a">>), Num(1)>>,
                                       <<Str(<<"#", "b">>), Num(2)>>,
                                       <<Str(<<"c">>), Num(3)>>>>]>>,
   <<[kind |-> "array", items |-> <<Ref(2), Ref(2), Ref(3)>>],
     [kind |-> "array", items |-> <<Num(1), Num(2)>>],
     [kind |-> "array", items |-> <<Ref(2), Ref(2)>>]>>,
   <<list(<<",", " ">>, <<Ref(2), Ref(3)>>, TRUE),
     block(<<<<"a">>, <<>>>>, <<Ref(4)>>),
     block(<<<<"b">>, <<>>>>, <<Ref(4)>>),
     listOfIterator(<<",", " ">>, <<Num(1)>>, FALSE, 4)>>}

\* an array and a Set of a function, twice, and a number
FunctionHeaps ==
  {<<[kind |-> k, items |-> <<Function, Num(1), Function>>]>> : k \in {"array", "set"}}

Heaps == GridHeaps \cup TestHeaps \cup FunctionHeaps

Options ==
  {NoOpts} \cup
  {[wrapWidth |-> <<w>>, indentIncrement |-> <<>>, baseIndent |-> <<b>>] :
     w \in 0..MaxWrapWidth, b \in 0..MaxBaseIndent}

Idle ==
  [state |-> "idle", value |-> Undefined, opts |-> NoOpts, before |-> {},
   content |-> <<>>, log |-> <<>>, failed |-> <<>>, formatted |-> <<>>, reentered |-> {}]

\* the state a top-level call of stringify starts from, iterators being those consumed
callState(iterators) ==
  [alreadyVisited |-> {}, consumed |-> iterators, path |-> <<>>, stack |-> <<>>,
   reentered |-> {}, level |-> 0, log |-> <<>>, failed |-> <<>>, formatted |-> <<>>]

Init ==
  /\ heap \in Heaps
  /\ consumed = {}
  /\ call = Idle

\* what a call of stringify leaves in the program, r being its answer
Returns(value, opts, r) ==
  /\ call' = [state |-> IF r.threw THEN "thrown" ELSE "returned",
              value |-> value, opts |-> opts, before |-> consumed,
              content |-> r.content, log |-> r.st.log, failed |-> r.st.failed,
              formatted |-> r.st.formatted,
              reentered |-> r.st.reentered]
  /\ consumed' = r.st.consumed

\* stringify(value, opts), called by the program
Stringify(value, opts) ==
  /\ call.state = "idle"
  /\ Returns(value, opts, stringifyIn(value, opts, callState(consumed), 0))
  /\ UNCHANGED heap

\* the program takes the result
Take ==
  /\ call.state # "idle"
  /\ call' = Idle
  /\ UNCHANGED <<heap, consumed>>

Next ==
  \/ \E opts \in Options : Stringify(Ref(1), opts)
  \/ Take

Spec == Init /\ [][Next]_vars

\* a program that calls stringifyStringLiteral on strings of up to MaxLiteralLength
\* characters: the nine the function escapes, and two it does not
MaxLiteralLength == 2

LiteralChars == EscapedChars \cup {"a", "b"}

Literals == UNION {[1..n -> LiteralChars] : n \in 0..MaxLiteralLength}

InitLiteral ==
  /\ heap = <<>>
  /\ consumed = {}
  /\ call = Idle

\* stringifyStringLiteral(s), called by the program
StringifyStringLiteral(s) ==
  /\ call.state = "idle"
  /\ call' = [Idle EXCEPT !.state = "returned", !.value = Str(s),
                          !.content = stringifyStringLiteral(s)]
  /\ UNCHANGED <<heap, consumed>>

NextLiteral ==
  \/ \E s \in Literals : StringifyStringLiteral(s)
  \/ Take

SpecLiteral == InitLiteral /\ [][NextLiteral]_vars


\* a program that renders the entries of a Map under keys of every type: strings of up
\* to MaxKeyLength characters, numbers and bigints up to MaxKeyNumber, and the rest
MaxKeyLength == 2

MaxKeyNumber == 11

KeyChars == {"a", "S", "_", "1", "#", "'", " ", "\n"}

Keys ==
  {Undefined, Null, Bool(TRUE), Bool(FALSE), Function, Ref(1), Symbol(<<>>), Symbol(<<"a">>)}
    \cup {Num(n) : n \in 0..MaxKeyNumber} \cup {BigInt(n) : n \in 0..MaxKeyNumber}
    \cup {Str(s) : s \in UNION {[1..n -> KeyChars] : n \in 0..MaxKeyLength}}

InitKey ==
  /\ heap = <<[kind |-> "map", entries |-> <<>>]>>
  /\ consumed = {}
  /\ call = Idle

\* stringifyKey(k), called by objectLike for the entry [k, v]
StringifyKey(k) ==
  /\ call.state = "idle"
  /\ call' = [Idle EXCEPT !.state = "returned", !.value = k, !.content = stringifyKey(k)]
  /\ UNCHANGED <<heap, consumed>>

NextKey ==
  \/ \E k \in Keys : StringifyKey(k)
  \/ Take

SpecKey == InitKey /\ [][NextKey]_vars

\* a program that stringifies a text node of up to MaxTextLength characters (a letter, a
\* space, a tab, "\n", "\r") at a base indent of up to MaxTextIndent spaces
MaxTextLength == 5

MaxTextIndent == 2

TextChars == {"a", " ", "\t", "\n", "\r"}

Texts == UNION {[1..n -> TextChars] : n \in 0..MaxTextLength}

InitText ==
  /\ heap \in {<<text(<<t>>, <<>>)>> : t \in Texts}
  /\ consumed = {}
  /\ call = Idle

NextText ==
  \/ \E b \in 0..MaxTextIndent :
       Stringify(Ref(1), [wrapWidth |-> <<>>, indentIncrement |-> <<>>, baseIndent |-> <<b>>])
  \/ Take

SpecText == InitText /\ [][NextText]_vars

\* a program that stringifies one block, inline or list built over text leaves, an
\* inline leaf and numbers: objects 2 to 5 are text`ab`, text` b `, a text of two lines
\* and inline`ab`
LayoutLeaves ==
  <<text(<<<<"a", "b">>>>, <<>>),
    text(<<<<" ", "b", " ">>>>, <<>>),
    text(<<<<"a", "\n", " ", " ", "b">>>>, <<>>),
    inline(<<<<"a", "b">>>>, <<>>)>>

\* the strings of a template: nothing, white space, with white space at an end, with
\* line breaks
LayoutStrings == {<<>>, <<" ">>, <<"(", " ">>, <<" ", ")">>, <<"\n", "a", "\n", "b">>}

LayoutInterpolations ==
  {<<>>} \cup {<<x>> : x \in {Ref(2), Ref(3), Ref(4)}}
         \cup {<<x, y>> : x, y \in {Ref(2), Ref(3), Ref(4)}}

LayoutJoiners == {<<",", " ">>, <<>>, <<",", "\n">>}

LayoutItems ==
  LET Item == {Ref(2), Ref(4), Ref(5), Num(9), Num(10)}
  IN {<<>>} \cup {<<x>> : x \in Item} \cup {<<x, y>> : x, y \in Item}
            \cup {<<x, y, z>> : x, y, z \in {Ref(2), Ref(5), Num(10)}}

\* the templates over the interpolations kids, one string more than interpolations
LayoutTemplates(kids) ==
  {block(strings, kids) : strings \in [1..(Len(kids) + 1) -> LayoutStrings]}
    \cup {inline(strings, kids) : strings \in [1..(Len(kids) + 1) -> LayoutStrings]}

LayoutNodes ==
  UNION {LayoutTemplates(kids) : kids \in LayoutInterpolations}
    \cup {list(joiner, items, sort) :
            joiner \in LayoutJoiners, items \in LayoutItems, sort \in BOOLEAN}

InitLayout ==
  /\ heap \in {<<node>> \o LayoutLeaves : node \in LayoutNodes}
  /\ consumed = {}
  /\ call = Idle

\* the options of the calls: those of Options, and an indentIncrement of up to
\* MaxIndentIncrement spaces
MaxIndentIncrement == 1

LayoutOptions ==
  Options \cup
  {[wrapWidth |-> <<w>>, indentIncrement |-> <<n>>, baseIndent |-> <<b>>] :
     w \in 0..MaxWrapWidth, n \in 0..MaxIndentIncrement, b \in 0..MaxBaseIndent}

NextLayout ==
  \/ \E opts \in LayoutOptions : Stringify(Ref(1), opts)
  \/ Take

SpecLayout == InitLayout /\ [][NextLayout]_vars

\* a program that stringifies values with a text node whose render throws: objects 1
\* and 2 are of every kind, object 3 is a text with as many strings as interpolations,
\* a text without strings, a text that interpolates object 1, or text`ab`
ThrowingLeaves ==
  {text(<<<<"a">>>>, <<Num(1)>>), text(<<>>, <<>>), text(<<<<"t">>, <<>>>>, <<Ref(1)>>),
   text(<<<<"a", "b">>>>, <<>>)}

ThrowingHeaps ==
  {h \in {<<Make(k1, kids1, 1), Make(k2, kids2, 2), leaf>> :
            k1 \in Kinds, kids1 \in {<<Ref(2)>>, <<Num(1), Ref(2)>>, <<Ref(2), Ref(2)>>},
            k2 \in Kinds, kids2 \in {<<Ref(3)>>, <<Num(2), Ref(3)>>, <<Ref(3), Ref(1)>>},
            leaf \in ThrowingLeaves} :
     textInterpolates(h) /\ constructible(h)}

InitThrowing ==
  /\ heap \in ThrowingHeaps
  /\ consumed = {}
  /\ call = Idle

SpecThrowing == InitThrowing /\ [][Next]_vars

\* a program that stringifies with wrapWidth: Infinity: the values of SpecLayout and
\* of the tests

InfiniteOptions ==
  {[wrapWidth |-> <<Infinity>>, indentIncrement |-> n, baseIndent |-> <<b>>] :
     n \in {<<>>} \cup {<<i>> : i \in 0..MaxIndentIncrement}, b \in 0..MaxBaseIndent}

InitInfinite ==
  /\ heap \in {<<node>> \o LayoutLeaves : node \in LayoutNodes} \cup TestHeaps
  /\ consumed = {}
  /\ call = Idle

NextInfinite ==
  \/ \E opts \in InfiniteOptions : Stringify(Ref(1), opts)
  \/ Take

SpecInfinite == InitInfinite /\ [][NextInfinite]_vars

\* the checks of the constructors: block and inline throw unless they get one more
\* string than interpolations; text has no check
textThrows(strings, interpolations) == FALSE

blockThrows(strings, interpolations) == Len(strings) # Len(interpolations) + 1

inlineThrows(strings, interpolations) == Len(strings) # Len(interpolations) + 1

constructorThrows(kind, strings, interpolations) ==
  CASE kind = "text" -> textThrows(strings, interpolations)
    [] kind = "block" -> blockThrows(strings, interpolations)
    [] kind = "inline" -> inlineThrows(strings, interpolations)

\* a program that calls text, block and inline as functions, with up to MaxStrings
\* strings and up to MaxInterpolations interpolations, keeps up to MaxNodes of the nodes
\* it gets and stringifies the first
MaxStrings == 3

MaxInterpolations == 2

MaxNodes == 1

ConstructorStrings == UNION {[1..n -> {<<>>, <<"a">>}] : n \in 0..MaxStrings}

ConstructorInterpolations ==
  UNION {[1..n -> {Num(1), Str(<<"b">>)}] : n \in 0..MaxInterpolations}

InitConstruct ==
  /\ heap = <<>>
  /\ consumed = {}
  /\ call = Idle

\* text(strings, ...interpolations), block(...) or inline(...), called by the program
Construct(kind, strings, interpolations) ==
  /\ call.state = "idle"
  /\ Len(heap) < MaxNodes
  /\ IF constructorThrows(kind, strings, interpolations)
       THEN /\ call' = [Idle EXCEPT !.state = "thrown"]
            /\ heap' = heap
       ELSE /\ call' = [Idle EXCEPT !.state = "constructed", !.value = Ref(Len(heap) + 1)]
            /\ heap' = Append(heap, [kind |-> kind, strings |-> strings,
                                     interpolations |-> interpolations])
  /\ UNCHANGED consumed

\* stringify(node) of the first node the program got
StringifyConstructed ==
  /\ heap # <<>>
  /\ Stringify(Ref(1), NoOpts)

NextConstruct ==
  \/ \E kind \in {"text", "block", "inline"}, strings \in ConstructorStrings,
         interpolations \in ConstructorInterpolations :
       Construct(kind, strings, interpolations)
  \/ StringifyConstructed
  \/ Take

SpecConstruct == InitConstruct /\ [][NextConstruct]_vars

\* the calls with a formatter of the caller's, at the default width and at width 0
FormatterOptions ==
  {NoOpts} \cup
  {[wrapWidth |-> w, indentIncrement |-> <<>>, baseIndent |-> <<>>, formatter |-> f] :
     w \in {<<>>, <<0>>}, f \in {"customFormatter", "defaultFormatter"}}

NextFormatter ==
  \/ \E opts \in FormatterOptions : Stringify(Ref(1), opts)
  \/ Take

\* the values of Init, stringified with a formatter
SpecFormatter == Init /\ [][NextFormatter]_vars

(***************************************************************************)
(* Properties                                                              *)
(*                                                                         *)
(* call.log holds every call of render the last call of stringify made     *)
(* and that returned: the value, the kind of the node that answered, the   *)
(* context (wrapWidth, indent) and the result.                             *)
(***************************************************************************)

Entries == {call.log[i] : i \in 1..Len(call.log)}

\* C1: a render result of a built-in node (text, block, inline, list, the circular
\* marker) that is not multiline has no "\n" in its content.
SingleLineHasNoNewline ==
  \A e \in Entries : ~e.res.isMultiline => ~Includes(e.res.content, "\n")

\* a call in which a block, an inline and a list over rendered items stayed on one
\* line, and another render was multiline with "\n" in its content
SingleLineAndMultilineRendered ==
  /\ call.state = "returned"
  /\ \A k \in {"block", "inline", "list"} :
       \E e \in Entries : e.kind = k /\ e.sub > 0 /\ ~e.res.isMultiline /\ e.res.content # <<>>
  /\ \E e \in Entries : e.res.isMultiline /\ Includes(e.res.content, "\n")

fitsWrapWidth(e) == Len(e.indent) + Len(e.res.content) <= e.wrapWidth

\* C2 (as stated): a text, block, inline or list node that renders single-line at
\* wrapWidth w and indent i has i.length + content.length <= w.
SingleLineFitsWrapWidth ==
  \A e \in Entries : ~e.res.isMultiline => fitsWrapWidth(e)

\* C2 (amended): a block, inline or list node that renders single-line at wrapWidth w
\* and indent i has i.length + content.length <= w; a text node never looks at w.
SingleLineTemplateFitsWrapWidth ==
  \A e \in Entries :
    e.kind \in {"block", "inline", "list"} /\ ~e.res.isMultiline => fitsWrapWidth(e)

\* a call in which a block, an inline and a list, each over rendered items and at an
\* indent, stayed on one line, and a block and a list of the same call did not
SingleLineTemplatesRendered ==
  /\ call.state = "returned"
  /\ \A k \in {"block", "inline", "list"} :
       \E e \in Entries : /\ e.kind = k /\ e.sub > 0 /\ ~e.res.isMultiline
                          /\ Len(e.indent) > 0 /\ Len(e.res.content) > 0
  /\ \A k \in {"block", "list"} : \E e \in Entries : e.kind = k /\ e.res.isMultiline

\* the options of the last call with wrapWidth one less (the default: MaxWrapWidth)
narrower(opts) ==
  IF opts.wrapWidth = <<>>
    THEN [opts EXCEPT !.wrapWidth = <<MaxWrapWidth>>, !.baseIndent = <<DefaultBaseIndent>>]
    ELSE [opts EXCEPT !.wrapWidth = <<opts.wrapWidth[1] - 1>>]

hasNarrower(opts) == opts.wrapWidth = <<>> \/ opts.wrapWidth[1] > 0

\* the log of the last call, had it been made with opts
logWith(opts) == stringifyIn(call.value, opts, callState(call.before), 0).st.log

\* C3: what renders multiline at wrapWidth w renders multiline at every smaller
\* wrapWidth, the node, indent and indentIncrement being the same: stated for the next
\* smaller width, of every render of every call, from which it follows for all widths.
WrappingIsMonotonic ==
  call.state = "returned" /\ hasNarrower(call.opts) =>
    LET log == logWith(narrower(call.opts))
    IN /\ Len(log) = Len(call.log)
       /\ \A i \in 1..Len(log) :
            /\ log[i].value = call.log[i].value
            /\ log[i].indent = call.log[i].indent
            /\ call.log[i].res.isMultiline => log[i].res.isMultiline

\* a call in which one render stayed on one line and another was multiline, and with
\* the next smaller wrapWidth the first is multiline too
NarrowerWraps ==
  /\ call.state = "returned" /\ call.opts.wrapWidth # <<>> /\ call.opts.wrapWidth[1] > 0
  /\ LET log == logWith(narrower(call.opts))
     IN /\ \E i \in 1..Len(log) : ~call.log[i].res.isMultiline /\ log[i].res.isMultiline
        /\ \E i \in 1..Len(log) : call.log[i].res.isMultiline /\ log[i].res.isMultiline

\* C4: stringify called twice on the same value with the same options returns the same
\* string, and a call changes no state of what it renders (here: of the iterable a list
\* was built from); stated of the last call and the same call made again after it.
RerenderIsIdentical ==
  call.state = "returned" =>
    /\ consumed = call.before
    /\ ~stringifyIn(call.value, call.opts, callState(consumed), 0).threw
    /\ stringifyIn(call.value, call.opts, callState(consumed), 0).content = call.content

\* C5: stringify returns for every finite value graph, whatever its cycles: no call
\* ends with the call stack exhausted.
StringifyReturns == call.state # "thrown"

\* C6: a composite value that render meets while a render of it is still active is
\* rendered as the single-line text <circular> and is not recursed into.
AncestorRendersCircular ==
  /\ call.reentered = {}
  /\ \A e \in Entries :
       e.value.t = "ref" /\ Includes(e.stack, e.value) =>
         /\ e.res = [isMultiline |-> FALSE,
                     content |-> <<"<", "c", "i", "r", "c", "u", "l", "a", "r", ">">>]
         /\ e.sub = 0

\* the members the formatter renders of an array, a Set, a Map or a plain object
members(obj) == IF obj.kind \in {"array", "set"} THEN obj.items ELSE obj.entries

isComposite(value) ==
  value.t = "ref" /\ heap[value.id].kind \in {"array", "set", "map", "object"}

\* C7: a composite value that is not on the recursion path is never rendered as
\* <circular>, also when the same call has rendered it before in a sibling branch: each
\* time its formatted node answers, after render went into every member.
SiblingRendersInFull ==
  \A e \in Entries :
    /\ e.kind = "circular" => isObject(e.value) /\ Includes(e.path, e.value)
    /\ isComposite(e.value) /\ ~Includes(e.path, e.value) =>
         /\ e.kind = defaultFormatter(e.value).kind
         /\ e.sub >= Len(members(heap[e.value.id]))
         /\ e.res.content # <<"<", "c", "i", "r", "c", "u", "l", "a", "r", ">">>

\* a call that rendered one composite value with members twice, in sibling branches
SiblingsRendered ==
  /\ call.state = "returned"
  /\ \E i, j \in 1..Len(call.log) :
       /\ i < j
       /\ isComposite(call.log[i].value)
       /\ call.log[i].value = call.log[j].value
       /\ call.log[i].path = call.log[j].path
       /\ call.log[i].sub > 1 /\ call.log[j].sub > 1
       /\ call.log[i].kind # "circular" /\ call.log[j].kind # "circular"

reverse(xs) == [i \in 1..Len(xs) |-> xs[Len(xs) + 1 - i]]

\* the collection obj with its members in the opposite order
reordered(obj) ==
  IF obj.kind = "map" THEN [obj EXCEPT !.entries = reverse(@)]
  ELSE [obj EXCEPT !.items = reverse(@)]

\* a Set, a Map or a list with { sort: true } over an array of items
isSortedCollection(value) ==
  /\ value.t = "ref"
  /\ \/ heap[value.id].kind \in {"set", "map"}
     \/ heap[value.id].kind = "list" /\ heap[value.id].sort /\ heap[value.id].gen = 0

\* C8: a list with { sort: true }, a Set or a Map renders the same content whatever the
\* order of its items; stated of the last call and the call on the same collection
\* with the items in the opposite order, for collections that do not hold themselves.
SortedContentIgnoresOrder ==
  /\ call.state = "returned"
  /\ isSortedCollection(call.value)
  /\ \A e \in Entries : e.kind # "circular"
  => stringifyIn(Obj(reordered(objectOf(call.value)), call.value),
                 call.opts, callState(call.before), 0).content = call.content

\* the list objectLike built for a plain object
isEntriesOfObject(e) ==
  /\ e.kind = "list" /\ e.value.t = "object" /\ e.value.obj.kind = "list"
  /\ e.value.owner.t = "ref" /\ heap[e.value.owner.id].kind = "object"

\* what render answered for item, an item of the list rendered by the i-th entry
itemResult(i, item) ==
  LET j == CHOOSE j \in (i - call.log[i].sub)..(i - 1) :
             /\ call.log[j].value = item
             /\ call.log[j].path = Append(call.log[i].path, call.log[i].value)
  IN call.log[j].res

\* C9: the entries of a plain object are rendered in insertion order: the list of its
\* entries is joined from the rendered entries as they are, unsorted.
ObjectKeepsInsertionOrder ==
  \A i \in 1..Len(call.log) :
    isEntriesOfObject(call.log[i]) =>
      call.log[i].res =
        listRender(call.log[i].value.obj.joiner, FALSE,
                   [k \in 1..Len(call.log[i].value.obj.items) |->
                      itemResult(i, call.log[i].value.obj.items[k])],
                   [wrapWidth |-> call.log[i].wrapWidth, indent |-> call.log[i].indent])

\* each special character's own escape: backslash and the character's letter or itself
ownEscape(c) ==
  CASE c = "NUL" -> <<"\\", "0">>
    [] c = "BS" -> <<"\\", "b">>
    [] c = "\f" -> <<"\\", "f">>
    [] c = "\n" -> <<"\\", "n">>
    [] c = "\r" -> <<"\\", "r">>
    [] c = "\t" -> <<"\\", "t">>
    [] c = "VT" -> <<"\\", "v">>
    [] c = "\\" -> <<"\\", "\\">>
    [] c = "'" -> <<"\\", "'">>
    [] OTHER -> <<c>>

\* C10: stringifyStringLiteral answers the string in single quotes, each special
\* character replaced by its own escape and a single quote by backslash, quote.
LiteralEscapesEachSpecial ==
  call.state = "returned" /\ call.value.t = "string" =>
    call.content =
      <<"'">> \o Concat([i \in 1..Len(call.value.s) |-> ownEscape(call.value.s[i])]) \o <<"'">>

\* the text of a key that is not a string, by its type
keyText(k) ==
  CASE k.t = "undefined" -> <<"u", "n", "d", "e", "f", "i", "n", "e", "d">>
    [] k.t = "boolean" -> IF k.b THEN <<"t", "r", "u", "e">> ELSE <<"f", "a", "l", "s", "e">>
    [] k.t \in {"number", "bigint"} -> NumberToString(k.n)
    [] k.t = "symbol" -> <<"S", "y", "m", "b", "o", "l", "(">> \o k.description \o <<")">>
    [] k.t = "function" -> <<"<", "f", "u", "n", "c", "t", "i", "o", "n", ">">>
    [] k.t = "ref" -> <<"<", "o", "b", "j", "e", "c", "t", ">">>
    [] k.t = "null" -> <<"n", "u", "l", "l">>

\* s matches ^[A-Za-z_][A-Za-z0-9_]*$
isIdentifier(s) ==
  /\ s # <<>>
  /\ Head(s) \in Letters \cup {"_"}
  /\ \A i \in 2..Len(s) : s[i] \in Letters \cup Digits \cup {"_"}

\* how the entry key k is to render
expectedKey(k) ==
  IF k.t = "string"
    THEN IF isIdentifier(k.s) THEN k.s ELSE stringifyStringLiteral(k.s)
    ELSE <<"[">> \o keyText(k) \o <<"]">>

\* C11: the key of a Map or object entry renders bare if it is a string matching
\* ^[A-Za-z_][A-Za-z0-9_]*$, as a quoted string literal if it is any other string, and
\* as "[" + the text of its type + "]" if it is not a string (undefined, boolean,
\* number, bigint, symbol, function, object, null).
KeyRendersByType ==
  call.state = "returned" => call.content = expectedKey(call.value)

\* the line l with m leading spaces taken off and indent put before it; a line with
\* fewer than m leading spaces (a blank one) as it is
reindented(l, m, indent) ==
  IF indentOfLine(l) >= m THEN indent \o SubSeq(l, m + 1, Len(l)) ELSE l

\* the text of several lines re-indented: the first line as it is, the remaining ones
\* re-indented by the least number of leading spaces of the non-blank ones among them
reindentedText(lines, indent) ==
  LET restLines == Tail(lines)
      nonBlank == {j \in 1..Len(restLines) : ~isBlankLine(restLines[j])}
      m == IF nonBlank = {} THEN 0
           ELSE CHOOSE n \in 0..MaxTextLength :
                  /\ \E j \in nonBlank : indentOfLine(restLines[j]) = n
                  /\ \A j \in nonBlank : indentOfLine(restLines[j]) >= n
  IN joinWith(<<Head(lines)>> \o [j \in 1..Len(restLines) |-> reindented(restLines[j], m, indent)],
              <<"\n">>)

\* C12: when the text of a text node has line breaks, its content is the first line
\* untouched, followed by every remaining line with exactly m leading spaces stripped
\* and the indent of the context prepended, m being the least number of leading spaces
\* of the non-blank remaining lines (0 if there are none); a blank line with fewer than
\* m leading spaces is left as it is.
TextReindentsRemainingLines ==
  \A e \in Entries :
    (e.kind = "text" /\ e.value = Ref(1) /\ Len(splitLines(heap[1].strings[1])) > 1) =>
      e.res.content = reindentedText(splitLines(heap[1].strings[1]), e.indent)

\* the node that answered the render of value
nodeOf(value) == IF isStringifiable(value) THEN objectOf(value) ELSE defaultFormatter(value)

\* the log entries of the calls of render the node of the i-th entry made itself, in
\* the order of the calls
childrenOf(i) ==
  LET e == call.log[i]
      isChild(j) == call.log[j].level = e.level /\ Len(call.log[j].path) = Len(e.path) + 1
  IN SelectSeq([k \in 1..e.sub |-> i - e.sub - 1 + k], isChild)

\* what those calls answered
renderedOf(i) == [k \in 1..Len(childrenOf(i)) |-> call.log[childrenOf(i)[k]].res]

lengthOf(ss) == sum([k \in 1..Len(ss) |-> Len(ss[k])])

contentsOf(rendered) == [k \in 1..Len(rendered) |-> rendered[k].content]

\* C13: a block is multiline if and only if some child rendered multiline, or the
\* length of its indent plus the lengths of its strings and of its children's contents
\* is more than wrapWidth, or one of its strings holds a line break.
BlockWrapDecision ==
  \A i \in 1..Len(call.log) :
    call.log[i].kind = "block" =>
      LET e == call.log[i]
          strings == nodeOf(e.value).strings
          rendered == renderedOf(i)
      IN /\ Len(rendered) = Len(nodeOf(e.value).interpolations)
         /\ e.res.isMultiline <=>
              \/ \E k \in 1..Len(rendered) : rendered[k].isMultiline
              \/ Len(e.indent) + (lengthOf(strings) + lengthOf(contentsOf(rendered)))
                   > e.wrapWidth
              \/ \E k \in 1..Len(strings) : Includes(strings[k], "\n")

\* a block that is multiline for its multiline child alone: it fits wrapWidth and its
\* strings hold no line break
BlockOverMultilineChildRendered ==
  /\ call.state = "returned"
  /\ \E i \in 1..Len(call.log) :
       LET e == call.log[i]
       IN /\ e.kind = "block" /\ e.res.isMultiline
          /\ \E k \in 1..Len(renderedOf(i)) : renderedOf(i)[k].isMultiline
          /\ Len(e.indent) + (lengthOf(nodeOf(e.value).strings)
                                + lengthOf(contentsOf(renderedOf(i)))) <= e.wrapWidth
          /\ \A k \in 1..Len(nodeOf(e.value).strings) :
               ~Includes(nodeOf(e.value).strings[k], "\n")

\* the k-th string of a block that wraps, as the block places it
placedString(strings, k, indent) ==
  IF k = 1 THEN trim(strings[1])
  ELSE IF trim(strings[k]) = <<>> THEN <<>>
  ELSE <<"\n">> \o indent \o trim(strings[k])

\* strings and inserts in turn, starting and ending with a string
alternate(strings, inserts) ==
  Concat([k \in 1..(2 * Len(inserts) + 1) |->
            IF k % 2 = 1 THEN strings[(k + 1) \div 2] ELSE inserts[k \div 2]])

\* C14: the content of a multiline block is, in template order, its first string
\* trimmed, each child's content trimmed and preceded by a line break and childIndent
\* (indent + indentIncrement), and each later string trimmed and preceded by a line
\* break and indent, a later string that is empty after trimming being dropped; the
\* content of a block that is not multiline is its strings and its children's contents
\* concatenated as they are.
BlockContentByTemplate ==
  \A i \in 1..Len(call.log) :
    call.log[i].kind = "block" =>
      LET e == call.log[i]
          strings == nodeOf(e.value).strings
          rendered == renderedOf(i)
      IN e.res.content =
           IF e.res.isMultiline
             THEN alternate([k \in 1..Len(strings) |-> placedString(strings, k, e.indent)],
                            [k \in 1..Len(rendered) |->
                               <<"\n">> \o e.indent \o e.indentIncrement
                                        \o trim(rendered[k].content)])
             ELSE alternate(strings, contentsOf(rendered))

\* a multiline block of two children at an indent, with white space around its first
\* string and around a child's content, a blank string between the children and a last
\* string that is not blank
BlockWithBlankStringWrapped ==
  /\ call.state = "returned"
  /\ \E i \in 1..Len(call.log) :
       LET e == call.log[i]
           strings == nodeOf(e.value).strings
       IN /\ e.kind = "block" /\ e.res.isMultiline
          /\ e.indent # <<>> /\ e.indentIncrement # <<>>
          /\ Len(strings) = 3
          /\ strings[1] # trim(strings[1])
          /\ strings[2] # <<>> /\ trim(strings[2]) = <<>>
          /\ trim(strings[3]) # <<>>
          /\ \E k \in 1..2 : renderedOf(i)[k].content # trim(renderedOf(i)[k].content)

\* the number of line breaks in the strings ss
lineBreaksIn(ss) == Cardinality({<<k, n>> \in (1..Len(ss)) \X (1..lengthOf(ss)) :
                                  n <= Len(ss[k]) /\ ss[k][n] = "\n"})

\* C15: the content of an inline is its strings and its children's contents
\* concatenated in order, whether it is multiline or not: the inline adds no line
\* break and no indent, so its content has the line breaks of its strings and of its
\* children's contents and no other.
InlineContentIsConcatenation ==
  \A i \in 1..Len(call.log) :
    call.log[i].kind = "inline" =>
      LET e == call.log[i]
          strings == nodeOf(e.value).strings
          rendered == renderedOf(i)
      IN /\ Len(rendered) = Len(nodeOf(e.value).interpolations)
         /\ e.res.content = alternate(strings, contentsOf(rendered))
         /\ lineBreaksIn(<<e.res.content>>) =
              lineBreaksIn(strings) + lineBreaksIn(contentsOf(rendered))

\* an inline of two children that is multiline, at an indent, for its length alone: its
\* content has no line break
LongInlineRendered ==
  /\ call.state = "returned"
  /\ \E i \in 1..Len(call.log) :
       LET e == call.log[i]
       IN /\ e.kind = "inline" /\ e.res.isMultiline
          /\ e.indent # <<>>
          /\ Len(renderedOf(i)) = 2
          /\ ~Includes(e.res.content, "\n")

\* the larger of two numbers
max(a, b) == IF a > b THEN a ELSE b

\* the i-th entry is a list whose flag is the wrap decision with joiners joiner lengths
\* counted
listDecides(i, joiners) ==
  LET e == call.log[i]
      joiner == nodeOf(e.value).joiner
      rendered == renderedOf(i)
  IN e.res.isMultiline <=>
       \/ \E k \in 1..Len(rendered) : rendered[k].isMultiline
       \/ Includes(joiner, "\n")
       \/ Len(e.indent) + (lengthOf(contentsOf(rendered)) + Len(joiner) * joiners)
            > e.wrapWidth

\* C16 as stated: a list is multiline if and only if some item rendered multiline, or
\* the separator holds a line break, or the length of its indent plus the lengths of
\* its items' contents plus separator.length * (itemCount - 1) is more than wrapWidth,
\* for every number of items, none included.
ListWrapDecisionAsStated ==
  \A i \in 1..Len(call.log) :
    call.log[i].kind = "list" => listDecides(i, Len(renderedOf(i)) - 1)

\* C16: a list is multiline if and only if some item rendered multiline, or the
\* separator holds a line break, or the length of its indent plus the lengths of its
\* items' contents plus separator.length * max(itemCount - 1, 0) is more than
\* wrapWidth: the list of no items counts no separator.
ListWrapDecision ==
  \A i \in 1..Len(call.log) :
    call.log[i].kind = "list" => listDecides(i, max(Len(renderedOf(i)) - 1, 0))

\* the list of no items, multiline at an indent longer than wrapWidth, and by less
\* than the length of its separator
EmptyListWrapped ==
  /\ call.state = "returned"
  /\ \E i \in 1..Len(call.log) :
       LET e == call.log[i]
       IN /\ e.kind = "list" /\ renderedOf(i) = <<>> /\ nodeOf(e.value).items = <<>>
          /\ e.res.isMultiline
          /\ nodeOf(e.value).joiner # <<>> /\ ~Includes(nodeOf(e.value).joiner, "\n")
          /\ Len(e.indent) - Len(nodeOf(e.value).joiner) <= e.wrapWidth

\* the results of the items of the list of the i-th entry, in the order it joins them
joinedOf(i) ==
  IF nodeOf(call.log[i].value).sort THEN sortRendered(renderedOf(i)) ELSE renderedOf(i)

\* s without the white space at its end
withoutTrailingSpace(s) ==
  LET ends == {n \in 0..Len(s) : \A k \in (n + 1)..Len(s) : s[k] \in WhiteSpace}
  IN SubSeq(s, 1, CHOOSE n \in ends : \A k \in ends : n <= k)

\* the strings ss with sep between each two of them
separatedBy(ss, sep) ==
  Concat([k \in 1..(2 * Len(ss) - 1) |-> IF k % 2 = 1 THEN ss[(k + 1) \div 2] ELSE sep])

\* C17: the content of a list that is not multiline is its items' contents joined by
\* the separator as it is; the content of a multiline list is the items' contents joined
\* by the separator without its trailing white space, a line break and the indent: the
\* list puts exactly one line break between two adjacent items and leaves the contents
\* of the items as they are.
ListContentIsJoined ==
  \A i \in 1..Len(call.log) :
    call.log[i].kind = "list" =>
      LET e == call.log[i]
          joiner == nodeOf(e.value).joiner
          contents == contentsOf(joinedOf(i))
          between == withoutTrailingSpace(joiner) \o <<"\n">> \o e.indent
      IN IF e.res.isMultiline
           THEN /\ e.res.content = separatedBy(contents, between)
                /\ lineBreaksIn(<<e.res.content>>) =
                     lineBreaksIn(contents) +
                     max(Len(contents) - 1, 0) * (1 + lineBreaksIn(<<withoutTrailingSpace(joiner)>>))
           ELSE e.res.content = separatedBy(contents, joiner)

\* a multiline list of several items, at an indent, whose separator ends in white space
WrappedListRendered ==
  /\ call.state = "returned"
  /\ \E i \in 1..Len(call.log) :
       LET e == call.log[i]
       IN /\ e.kind = "list" /\ e.res.isMultiline
          /\ Len(renderedOf(i)) >= 2
          /\ e.indent # <<>>
          /\ withoutTrailingSpace(nodeOf(e.value).joiner) # nodeOf(e.value).joiner

\* the orders in which n items can be joined: p[k] is the place the k-th joined item
\* had among the items
orders(n) == {p \in [1..n -> 1..n] : \A a, b \in 1..n : p[a] = p[b] => a = b}

\* the order p sorts the rendered items by content and keeps items of equal content in
\* the order they had
sortsStably(p, rendered) ==
  /\ \A k \in 1..(Len(rendered) - 1) :
       ~StrLess(rendered[p[k + 1]].content, rendered[p[k]].content)
  /\ \A a, b \in 1..Len(rendered) :
       a < b /\ rendered[p[a]].content = rendered[p[b]].content => p[a] < p[b]

\* the content of the list of the i-th entry is that of its items joined in the order p
joinsInOrder(i, p) ==
  LET e == call.log[i]
      joiner == nodeOf(e.value).joiner
  IN e.res.content =
       separatedBy([k \in 1..Len(renderedOf(i)) |-> renderedOf(i)[p[k]].content],
                   IF e.res.isMultiline
                     THEN withoutTrailingSpace(joiner) \o <<"\n">> \o e.indent
                     ELSE joiner)

\* C18: a list built with sort joins its rendered items in non-decreasing
\* lexicographic order of their contents (not of the values): the joined items are a
\* permutation of the rendered ones, and items of equal content keep the order they
\* had; a list built without sort joins its items in the order they have.
SortedListJoinsInContentOrder ==
  \A i \in 1..Len(call.log) :
    call.log[i].kind = "list" =>
      IF nodeOf(call.log[i].value).sort
        THEN /\ \E p \in orders(Len(renderedOf(i))) :
                  sortsStably(p, renderedOf(i)) /\ joinsInOrder(i, p)
             /\ \A p \in orders(Len(renderedOf(i))) :
                  sortsStably(p, renderedOf(i)) =>
                    joinedOf(i) = [k \in 1..Len(renderedOf(i)) |-> renderedOf(i)[p[k]]]
        ELSE joinsInOrder(i, [k \in 1..Len(renderedOf(i)) |-> k])

\* a sorted list of three items: two of equal content, one of them multiline and the
\* other not, which kept their order, and a third of smaller content that moved before
\* them
SortedListReordered ==
  /\ call.state = "returned"
  /\ \E i \in 1..Len(call.log) :
       LET e == call.log[i]
           rendered == renderedOf(i)
       IN /\ e.kind = "list" /\ nodeOf(e.value).sort
          /\ Len(rendered) = 3
          /\ rendered[1].content = rendered[2].content
          /\ rendered[1].isMultiline # rendered[2].isMultiline
          /\ StrLess(rendered[3].content, rendered[1].content)
          /\ joinedOf(i) = <<rendered[3], rendered[1], rendered[2]>>

\* the calls of render of the last call of stringify that an exception left
Failures == {call.failed[k] : k \in 1..Len(call.failed)}

objectsOn(path) == {path[k] : k \in {n \in 1..Len(path) : isObject(path[n])}}

\* C20: every invocation of stringify has an alreadyVisited of its own. At every call
\* of render the set holds the objects on the path of the invocation the call belongs to
\* and nothing else, whether the invocation is nested in a render of another one (a
\* node's toString) or has had one nested in it: a value on the path of the outer
\* invocation is not in the set of the inner one and is not rendered as <circular> for
\* being there, and the set of the outer one is as it was when the inner one returns.
InvocationsHaveOwnVisited ==
  /\ \A e \in Entries :
       /\ e.visited = objectsOn(e.path)
       /\ e.left = objectsOn(e.path)
       /\ e.kind = "circular" => e.value \in objectsOn(e.path)
  /\ \A f \in Failures : f.visited = objectsOn(f.path) /\ f.left = objectsOn(f.path)

\* a call in which a nested invocation rendered in full an object that the outer
\* invocation had on its path, and the outer invocation went on to render under an
\* object of its path after the nested one had returned
NestedInvocationRendered ==
  /\ call.state = "returned"
  /\ \E i, j \in 1..Len(call.log) :
       /\ i < j
       /\ call.log[i].level > call.log[j].level
       /\ isObject(call.log[i].value)
       /\ Includes(call.log[i].stack, call.log[i].value)
       /\ call.log[i].kind # "circular"
       /\ call.log[j].visited # {}

\* the render of entry e has a line break of its own: in the text of a text node, in a
\* string of a block or inline, in the separator of a list
hasOwnLineBreak(e) ==
  CASE e.kind = "text" -> Includes(e.res.content, "\n")
    [] e.kind \in {"block", "inline"} ->
         \E k \in 1..Len(nodeOf(e.value).strings) : Includes(nodeOf(e.value).strings[k], "\n")
    [] e.kind = "list" -> Includes(nodeOf(e.value).joiner, "\n")
    [] OTHER -> FALSE

\* the renders of the invocation the program called
RootEntries == {e \in Entries : e.level = 1}

\* C21: with wrapWidth = Infinity the output of stringify has a line break only if a
\* text, a string of a block or inline, or the separator of a list in the rendered tree
\* holds one; if none does, every render of the call is on one line, at any base indent.
InfiniteWidthBreaksOnlyAtLineBreaks ==
  (call.state = "returned" /\ call.opts.wrapWidth = <<Infinity>>) =>
    /\ Includes(call.content, "\n") => \E e \in RootEntries : hasOwnLineBreak(e)
    /\ (\A e \in RootEntries : ~hasOwnLineBreak(e)) =>
         \A e \in RootEntries : ~e.res.isMultiline /\ ~Includes(e.res.content, "\n")

\* a call with wrapWidth = Infinity at a base indent that rendered a block over
\* several values on one line
WideValueOnOneLine ==
  /\ call.state = "returned" /\ call.opts.wrapWidth = <<Infinity>>
  /\ call.opts.baseIndent # <<0>>
  /\ ~Includes(call.content, "\n")
  /\ \E i \in 1..Len(call.log) :
       call.log[i].kind = "block" /\ call.log[i].level = 1 /\ call.log[i].sub > 3

\* the content of a block that has each child on a line of its own, at childIndent
wrappedBlockContent(i) ==
  LET e == call.log[i]
      strings == nodeOf(e.value).strings
  IN alternate([k \in 1..Len(strings) |-> placedString(strings, k, e.indent)],
               [k \in 1..Len(renderedOf(i)) |->
                  <<"\n">> \o e.indent \o e.indentIncrement \o trim(renderedOf(i)[k].content)])

\* the content of a list that has each item on a line of its own, at indent
wrappedListContent(i) ==
  separatedBy(contentsOf(joinedOf(i)),
              withoutTrailingSpace(nodeOf(call.log[i].value).joiner)
                \o <<"\n">> \o call.log[i].indent)

\* the length of the single line the node of the i-th entry would make
candidateLength(i) ==
  LET node == nodeOf(call.log[i].value)
  IN IF node.kind = "list"
       THEN lengthOf(contentsOf(renderedOf(i)))
              + Len(node.joiner) * max(Len(renderedOf(i)) - 1, 0)
       ELSE lengthOf(node.strings) + lengthOf(contentsOf(renderedOf(i)))

\* C22: rendered with wrapWidth = 0, every block and every list whose single line
\* would be longer than zero is multiline, each child of the block and each item of the
\* list on a line of its own; an inline adds no line break to its strings and its
\* children's contents, and a text none to its text. (A node interpolated into a text
\* is stringified by its toString, a call of its own with the default wrapWidth.)
ZeroWidthWrapsEveryBlockAndList ==
  \A i \in 1..Len(call.log) :
    LET e == call.log[i]
    IN e.wrapWidth = 0 =>
         CASE e.kind = "block" ->
                candidateLength(i) > 0 =>
                  e.res.isMultiline /\ e.res.content = wrappedBlockContent(i)
           [] e.kind = "list" ->
                candidateLength(i) > 0 =>
                  e.res.isMultiline /\ e.res.content = wrappedListContent(i)
           [] e.kind = "inline" ->
                lineBreaksIn(<<e.res.content>>) =
                  lineBreaksIn(nodeOf(e.value).strings) + lineBreaksIn(contentsOf(renderedOf(i)))
           [] e.kind = "text" ->
                nodeOf(e.value).interpolations = <<>> =>
                  lineBreaksIn(<<e.res.content>>) = lineBreaksIn(nodeOf(e.value).strings)
           [] OTHER -> TRUE

\* a call with wrapWidth = 0 that rendered a block of two children, or a list of
\* several items, none of them multiline, with a line break before each
ZeroWidthWrapped ==
  /\ call.state = "returned" /\ call.opts.wrapWidth = <<0>>
  /\ \E i \in 1..Len(call.log) :
       /\ call.log[i].kind \in {"block", "list"}
       /\ Len(renderedOf(i)) >= 2
       /\ \A k \in 1..Len(renderedOf(i)) : ~renderedOf(i)[k].isMultiline
       /\ ~hasOwnLineBreak(call.log[i])
       /\ lineBreaksIn(<<call.log[i].res.content>>) >= Len(renderedOf(i)) - 1
       /\ call.log[i].res.isMultiline

\* C23: a call of text, block or inline with a number of strings other than the number
\* of interpolations plus one throws and returns no node: every text, block and inline
\* node the program holds has one more string than interpolations.
NoMalformedNodeIsConstructed ==
  \A id \in DOMAIN heap :
    heap[id].kind \in {"text", "block", "inline"} =>
      Len(heap[id].strings) = Len(heap[id].interpolations) + 1

\* the pieces a multiline block puts together, in template order: strings at the odd
\* places, children at the even ones
piecesOf(i) ==
  LET e == call.log[i]
      strings == nodeOf(e.value).strings
      rendered == renderedOf(i)
  IN [k \in 1..(2 * Len(rendered) + 1) |->
        IF k % 2 = 1 THEN placedString(strings, (k + 1) \div 2, e.indent)
        ELSE <<"\n">> \o e.indent \o e.indentIncrement \o trim(rendered[k \div 2].content)]

\* the line breaks the multiline block or list of the i-th entry inserted itself, each
\* with the content before it, the content after it and the indent of the new line
insertedBreaksOf(i) ==
  LET e == call.log[i]
      pieces == piecesOf(i)
      contents == contentsOf(joinedOf(i))
      between == trimEnd(nodeOf(e.value).joiner) \o <<"\n">> \o e.indent
  IN IF e.kind = "block"
       THEN {[before |-> Concat(SubSeq(pieces, 1, k - 1)),
              after |-> Tail(pieces[k]) \o Concat(SubSeq(pieces, k + 1, Len(pieces))),
              indent |-> IF k % 2 = 1 THEN e.indent ELSE e.indent \o e.indentIncrement] :
               k \in {n \in 2..Len(pieces) : pieces[n] # <<>>}}
       ELSE {[before |-> separatedBy(SubSeq(contents, 1, j), between)
                           \o trimEnd(nodeOf(e.value).joiner),
              after |-> e.indent \o separatedBy(SubSeq(contents, j + 1, Len(contents)), between),
              indent |-> e.indent] :
               j \in 1..(Len(contents) - 1)}

\* no white space right before the line break, and after it the indent of the new line
\* and then content that does not start with white space
trimmedAround(b) ==
  /\ b.before = <<>> \/ b.before[Len(b.before)] \notin WhiteSpace
  /\ Len(b.after) >= Len(b.indent)
  /\ SubSeq(b.after, 1, Len(b.indent)) = b.indent
  /\ Len(b.after) > Len(b.indent) => b.after[Len(b.indent) + 1] \notin WhiteSpace

\* C24: wherever a block or a list inserts a line break, the white space on either side
\* of it is trimmed: the line break is not right after a white space character, and
\* between it and the next content that is not white space there is the indent of the
\* new line only.
InsertedLineBreaksAreTrimmed ==
  \A i \in 1..Len(call.log) :
    (call.log[i].kind \in {"block", "list"} /\ call.log[i].res.isMultiline) =>
      \A b \in insertedBreaksOf(i) : trimmedAround(b)

\* what the node of the i-th entry has to place, in order and without the line breaks
\* and indents it adds: the first line of a text, the strings and the children's
\* contents of a template (trimmed where a multiline block trims them), the content of
\* the first item of a list
elementsOf(i) ==
  LET e == call.log[i]
      node == nodeOf(e.value)
      contents == contentsOf(renderedOf(i))
  IN CASE e.kind = "text" -> <<splitLines(Concat(node.strings))[1]>>
       [] e.kind = "block" /\ e.res.isMultiline ->
            [k \in 1..(2 * Len(contents) + 1) |->
               IF k % 2 = 1 THEN trim(node.strings[(k + 1) \div 2])
               ELSE trim(contents[k \div 2])]
       [] e.kind \in {"block", "inline"} ->
            [k \in 1..(2 * Len(contents) + 1) |->
               IF k % 2 = 1 THEN node.strings[(k + 1) \div 2] ELSE contents[k \div 2]]
       [] OTHER -> IF contents = <<>> THEN <<>> ELSE <<contentsOf(joinedOf(i))[1]>>

\* the first of them that is not empty, or the empty string
firstElementOf(i) ==
  LET elements == elementsOf(i)
      filled == {k \in 1..Len(elements) : elements[k] # <<>>}
  IN IF filled = {} THEN <<>> ELSE elements[CHOOSE k \in filled : \A n \in filled : k <= n]

startsWith(s, prefix) == Len(s) >= Len(prefix) /\ SubSeq(s, 1, Len(prefix)) = prefix

\* C25: the content a text, block, inline or list renders starts with the first thing
\* the node has to place (its first string, child, item or line of text), never with a
\* line break or an indent the node adds itself.
ContentStartsWithFirstElement ==
  \A i \in 1..Len(call.log) :
    LET e == call.log[i]
    IN (/\ e.kind \in {"text", "block", "inline", "list"}
        /\ e.kind = "text" => nodeOf(e.value).interpolations = <<>>)
         => startsWith(e.res.content, firstElementOf(i))

\* the context the node of the entry e hands to render for a child or an item
contextFor(e) ==
  [wrapWidth |-> e.wrapWidth, indentIncrement |-> e.indentIncrement,
   indent |-> IF e.kind = "block" THEN e.indent \o e.indentIncrement ELSE e.indent]

contextOf(e) ==
  [wrapWidth |-> e.wrapWidth, indentIncrement |-> e.indentIncrement, indent |-> e.indent]

\* C26: a block renders each child with indent + indentIncrement for indent and with
\* its own wrapWidth and indentIncrement, an inline and a list render each child or item
\* with the context they received; and what a child answers depends on the child and
\* that context only: two children of one node that are the same value answer the same.
ChildrenRenderInParentContext ==
  \A i \in 1..Len(call.log) :
    call.log[i].kind \in {"block", "inline", "list"} =>
      /\ \A k \in 1..Len(childrenOf(i)) :
           contextOf(call.log[childrenOf(i)[k]]) = contextFor(call.log[i])
      /\ \A j, k \in 1..Len(childrenOf(i)) :
           call.log[childrenOf(i)[j]].value = call.log[childrenOf(i)[k]].value =>
             call.log[childrenOf(i)[j]].res = call.log[childrenOf(i)[k]].res

\* the calls of render of the last call of stringify that went on to a node for the
\* value, level and path of e; and the calls of the formatter from them
occurrencesOf(e) ==
  LET isSame(x) == /\ x.value = e.value /\ x.level = e.level /\ x.path = e.path
                   /\ x.kind # "circular"
  IN SelectSeq(call.log, isSame)

formatterCallsOf(e) ==
  LET isFrom(x) == /\ x.value = e.value /\ x.level = e.level
                   /\ x.path = Append(e.path, e.value)
  IN SelectSeq(call.formatted, isFrom)

\* C27: in a call of stringify that returned, every value render goes on to stringify,
\* at any depth, that is not a node is passed once per occurrence to the formatter of
\* the call's opts (defaultFormatter when they name none) and the node it returns is
\* rendered; a value that is a node is never passed to a formatter.
ValuesGoToConfiguredFormatter ==
  call.state = "returned" =>
    /\ \A k \in 1..Len(call.formatted) :
         /\ ~isStringifiable(call.formatted[k].value)
         /\ call.formatted[k].formatter = formatterOf(call.opts)
    /\ \A e \in Entries :
         /\ Len(formatterCallsOf(e)) =
              IF isStringifiable(e.value) THEN 0 ELSE Len(occurrencesOf(e))
         /\ e.kind # "circular" =>
              e.kind = IF isStringifiable(e.value) THEN objectOf(e.value).kind
                       ELSE format(formatterOf(call.opts), e.value).kind

\* the set while the render of entry e is active: what it was called with and, unless
\* the render answered <circular>, the value if it is an object or a function
activeIn(e) ==
  e.visited \cup (IF isObject(e.value) /\ e.kind # "circular" THEN {e.value} ELSE {})

\* C28: throughout a call of stringify, alreadyVisited holds the objects and functions
\* whose render is active in that call, and nothing else: a render is called with the
\* objects on its path in the set, the renders it makes are called with these and its
\* own value if that is an object or a function, a primitive is never in the set, and
\* the set is empty when the render of the call's own value returns or throws.
VisitedHoldsActiveComposites ==
  /\ \A i \in 1..Len(call.log) :
       LET e == call.log[i]
       IN /\ e.visited = objectsOn(e.path)
          /\ \A v \in e.visited \cup e.left : v.t \in {"ref", "object", "function"}
          /\ \A k \in 1..Len(childrenOf(i)) : call.log[childrenOf(i)[k]].visited = activeIn(e)
          /\ e.path = <<>> => e.visited = {} /\ e.left = {}
  /\ \A f \in Failures :
       /\ f.visited = objectsOn(f.path) /\ f.left = f.visited
       /\ f.path = <<>> => f.left = {}

\* a call that returned after it rendered a function and a primitive below an object,
\* the function twice
FunctionAndPrimitiveRendered ==
  /\ call.state = "returned"
  /\ \E i, j, k \in 1..Len(call.log) :
       /\ i < j
       /\ call.log[i].value = Function /\ call.log[j].value = Function
       /\ call.log[i].kind = "block" /\ call.log[j].kind = "block"
       /\ call.log[i].sub > 0
       /\ call.log[k].value = Num(1) /\ call.log[k].visited # {}
  /\ \E e \in Entries : e.path = <<>> /\ e.left = {}

\* C29: stringifyStringLiteral is injective: no string other than the one it was called
\* on has the literal it returned.
LiteralIsInjective ==
  (call.state = "returned" /\ call.value.t = "string") =>
    \A s \in Literals : stringifyStringLiteral(s) = call.content => s = call.value.s

\* the text of s after its last line break, and before its first
afterLastBreak(s) ==
  LET breaks == {n \in 1..Len(s) : s[n] = "\n"}
  IN IF breaks = {} THEN s
     ELSE SubSeq(s, (CHOOSE n \in breaks : \A m \in breaks : m <= n) + 1, Len(s))

beforeFirstBreak(s) ==
  LET breaks == {n \in 1..Len(s) : s[n] = "\n"}
  IN IF breaks = {} THEN s
     ELSE SubSeq(s, 1, (CHOOSE n \in breaks : \A m \in breaks : n <= m) - 1)

\* the entry whose node made the call of render of entry j: the first one after it
\* that is one shorter in path; and which of its calls that was
parentOf(j) ==
  LET isAbove(i) == /\ call.log[i].level = call.log[j].level
                    /\ Len(call.log[i].path) = Len(call.log[j].path) - 1
  IN CHOOSE i \in (j + 1)..Len(call.log) : isAbove(i) /\ \A m \in (j + 1)..(i - 1) : ~isAbove(m)

placeOf(j) ==
  Cardinality({m \in (parentOf(j) - call.log[parentOf(j)].sub)..j :
                 /\ call.log[m].level = call.log[j].level
                 /\ Len(call.log[m].path) = Len(call.log[j].path)})

\* the place among the joined items of the k-th item the list of entry i rendered
joinedPlace(i, k) ==
  LET c == contentsOf(renderedOf(i))
  IN IF nodeOf(call.log[i].value).sort
       THEN 1 + Cardinality({m \in 1..Len(c) : StrLess(c[m], c[k]) \/ (c[m] = c[k] /\ m < k)})
       ELSE k

\* what the node of entry i has in its content before and after the content of its
\* k-th child, and whether it trims that content
aroundChild(i, k) ==
  LET e == call.log[i]
      node == nodeOf(e.value)
      contents == contentsOf(renderedOf(i))
  IN IF e.kind = "list"
       THEN LET joined == contentsOf(joinedOf(i))
                q == joinedPlace(i, k)
                sep == IF e.res.isMultiline THEN trimEnd(node.joiner) \o <<"\n">> \o e.indent
                       ELSE node.joiner
            IN [before |-> Concat([n \in 1..(q - 1) |-> joined[n] \o sep]),
                after |-> Concat([n \in 1..(Len(joined) - q) |-> sep \o joined[q + n]]),
                trims |-> FALSE]
     ELSE IF e.kind = "block" /\ e.res.isMultiline
       THEN [before |-> Concat(SubSeq(piecesOf(i), 1, 2 * k - 1))
                          \o <<"\n">> \o e.indent \o e.indentIncrement,
             after |-> Concat(SubSeq(piecesOf(i), 2 * k + 1, 2 * Len(contents) + 1)),
             trims |-> TRUE]
     ELSE LET elements == [n \in 1..(2 * Len(contents) + 1) |->
                             IF n % 2 = 1 THEN node.strings[(n + 1) \div 2]
                             ELSE contents[n \div 2]]
          IN [before |-> Concat(SubSeq(elements, 1, 2 * k - 1)),
              after |-> Concat(SubSeq(elements, 2 * k + 1, 2 * Len(contents) + 1)),
              trims |-> FALSE]

\* line being a stretch of one line of the content of a child, from the start of that
\* line if startsLine and to its end if endsLine, and else from the start and to the
\* end of the content: the same stretch within the content of the parent, which has
\* around about the child
lineInParent(around, line, startsLine, endsLine) ==
  LET left == IF around.trims /\ ~startsLine THEN trimStart(line) ELSE line
      placed == IF around.trims /\ ~endsLine THEN trimEnd(left) ELSE left
  IN (IF startsLine THEN <<>> ELSE afterLastBreak(around.before))
       \o placed
       \o (IF endsLine THEN <<>> ELSE beforeFirstBreak(around.after))

RECURSIVE outputLineOf(_, _, _, _)
RECURSIVE lineAbove(_, _, _, _, _)
\* the whole line of the string stringify returned that holds the stretch line of the
\* content of entry j
outputLineOf(j, line, startsLine, endsLine) ==
  IF call.log[j].path = <<>> THEN line
  ELSE lineAbove(parentOf(j), aroundChild(parentOf(j), placeOf(j)), line, startsLine, endsLine)

lineAbove(i, around, line, startsLine, endsLine) ==
  outputLineOf(i, lineInParent(around, line, startsLine, endsLine),
               startsLine \/ Includes(around.before, "\n"),
               endsLine \/ Includes(around.after, "\n"))

\* the call rendered a tree of blocks, lists and inlines over texts of one line
isTreeOverSingleLineTexts ==
  /\ call.state = "returned"
  /\ \A e \in Entries :
       /\ e.level = 1
       /\ e.kind \in {"text", "circular"} => ~e.res.isMultiline

\* C30: in the string stringify returns for a tree of blocks, lists and inlines over
\* texts of one line, every block and every list that rendered single-line (and has
\* content that is not blank, so that it lies on a line) lies on a line that is, from
\* column 0 and with all that precedes and follows the node on it, at most wrapWidth
\* characters long.
SingleLineNodeLiesOnFittingLine ==
  isTreeOverSingleLineTexts =>
    \A j \in 1..Len(call.log) :
      (/\ call.log[j].kind \in {"block", "list"} /\ ~call.log[j].res.isMultiline
       /\ trim(call.log[j].res.content) # <<>>) =>
        Len(outputLineOf(j, call.log[j].res.content, FALSE, FALSE)) <= call.log[j].wrapWidth

=============================================================================
